---- MODULE Spec2Model ----
(***************************************************************************)
(* A model of the NaN-boxed value layer of akuma's virtual machine         *)
(* (vm/src/value.rs): the 64-bit Value word, its predicates, constructors  *)
(* and projections, the heap cells with their intrusive gc link, the       *)
(* accessors and mutators of pairs, the mark traversal and the Display     *)
(* formatter.                                                              *)
(*                                                                         *)
(* A u64 is modelled exactly as the set of its bit positions that are 1    *)
(* (a subset of 0..63): & is intersection, | is union, shifts move the     *)
(* positions, and equality of words is equality of sets.  TLC's integers   *)
(* are 32 bits wide, so no 64-bit quantity is ever held in one integer.    *)
(***************************************************************************)
EXTENDS Integers, Sequences, FiniteSets, TLC

VARIABLES
    val,      \* value layer: the Value word under examination
    made,     \* value layer: the constructor call that produced val, with its input
    obs,      \* value layer: what to_type and the projections returned for val
    HEAD,     \* heap: the process-wide head word (get_head / set_head)
    heap,     \* heap: address -> cell, for the cells that are allocated
    held,     \* heap: the heap Values the constructors returned to the program
    allocs,   \* heap: the constructor calls made, in order (address, kind, head read)
    last,     \* heap: the last operation called, its arguments and what it returned
    status    \* heap: "running", or how the process ended

vars == <<val, made, obs, HEAD, heap, held, allocs, last, status>>

wordVars == <<val, made, obs>>
heapVars == <<HEAD, heap, held, allocs, last, status>>

---------------------------------------------------------------------------
(* u64 arithmetic on bit sets *)

\* The bits of a small natural n (n < 2^31).
U(n) == {k \in 0..30 : (n \div (2^k)) % 2 = 1}

Shl(w, n) == {k + n : k \in {j \in w : j + n <= 63}}

Shr(w, n) == {k - n : k \in {j \in w : j >= n}}

And(a, b) == a \cap b

Or(a, b) == a \cup b

\* (1 << n) - 1
LowMask(n) == 0..(n - 1)

\* `x as u32 as u64` of a 64-bit x: the low 32 bits.
AsU32(w) == w \cap (0..31)

MinI32 == -2147483647 - 1

MaxI32 == 2147483647

\* `i as u32 as u64` of an i32: the two's-complement bits of i.
I32Bits(i) == {k \in 0..30 : (i \div (2^k)) % 2 = 1} \cup (IF i < 0 THEN {31} ELSE {})

RECURSIVE SumPow(_)
SumPow(s) == IF s = {} THEN 0
             ELSE LET k == CHOOSE x \in s : TRUE IN 2^k + SumPow(s \ {k})

\* `w as u32 as i32`: the low 32 bits read as a two's-complement integer.
BitsI32(w) == SumPow(w \cap (0..30)) + (IF 31 \in w THEN MinI32 ELSE 0)

---------------------------------------------------------------------------
(* value.rs: the layout constants *)

VTypeCode == [Void |-> 0, Nil |-> 1, Bool |-> 2, Integer |-> 3, Float |-> 4,
              Symbol |-> 5, Lambda |-> 6, Pair |-> 7, Vec |-> 8, String |-> 9]

\* impl From<u64> for VType; "unreachable" is the panic of its last branch.
VTypeFrom(p) ==
    IF p = U(VTypeCode.String) THEN "String"
    ELSE IF p = U(VTypeCode.Vec) THEN "Vec"
    ELSE IF p = U(VTypeCode.Lambda) THEN "Lambda"
    ELSE IF p = U(VTypeCode.Pair) THEN "Pair"
    ELSE IF p = U(VTypeCode.Void) THEN "Void"
    ELSE "unreachable"

NAN == Shl(U(32752), 48)            \* 0x7FF0_0000_0000_0000

TAG_MASK == Shl(U(7), 48)           \* 0b111 << 48

IMMEDIATE_MASK == Shl(U(15), 44)    \* 0b1111 << 44

IMMEDIATE_TAG == Shl(U(0), 48)

VOID_TAG == Shl(U(1), 44)

NIL_TAG == Shl(U(2), 44)

BOOL_TAG == Shl(U(3), 44)

INT_TAG == Shl(U(4), 44)

SYMBOL_TAG == Shl(U(5), 44)

TRUE_BIT == U(1)                    \* const TRUE: u64 = 1

FALSE_BIT == U(0)                   \* const FALSE: u64 = 0

LAMBDA_TAG == Shl(U(1), 48)

PAIR_TAG == Shl(U(2), 48)

VEC_TAG == Shl(U(3), 48)

STRING_TAG == Shl(U(4), 48)

---------------------------------------------------------------------------
(* value.rs: predicates, immediate constructors and projections *)

\* macro is_imm!
is_imm(v, tag) == /\ And(v, NAN) = NAN
                  /\ And(v, TAG_MASK) = IMMEDIATE_TAG
                  /\ And(v, IMMEDIATE_MASK) = tag

\* macro is_pointer!
is_pointer(v, tag) == /\ And(v, NAN) = NAN
                      /\ And(v, TAG_MASK) = tag

is_void(v) == is_imm(v, VOID_TAG)

is_nil(v) == is_imm(v, NIL_TAG)

is_bool(v) == is_imm(v, BOOL_TAG)

is_false(v) == is_bool(v) /\ And(v, TRUE_BIT) = FALSE_BIT

is_true(v) == ~is_false(v)

is_integer(v) == is_imm(v, INT_TAG)

is_float(v) == And(v, NAN) # NAN

is_symbol(v) == is_imm(v, SYMBOL_TAG)

is_lambda(v) == is_pointer(v, LAMBDA_TAG)

is_pair(v) == is_pointer(v, PAIR_TAG)

is_vec(v) == is_pointer(v, VEC_TAG)

is_string(v) == is_pointer(v, STRING_TAG)

\* Value::to_type; "unreachable" is the panic of its last branch.
to_type(v) ==
    IF is_void(v) THEN "Void"
    ELSE IF is_nil(v) THEN "Nil"
    ELSE IF is_bool(v) THEN "Bool"
    ELSE IF is_integer(v) THEN "Integer"
    ELSE IF is_float(v) THEN "Float"
    ELSE IF is_symbol(v) THEN "Symbol"
    ELSE IF is_lambda(v) THEN "Lambda"
    ELSE IF is_pair(v) THEN "Pair"
    ELSE IF is_vec(v) THEN "Vec"
    ELSE IF is_string(v) THEN "String"
    ELSE "unreachable"

Void == Or(NAN, VOID_TAG)

Nil == Or(NAN, NIL_TAG)

True == Or(Or(NAN, BOOL_TAG), TRUE_BIT)

False == Or(Or(NAN, BOOL_TAG), FALSE_BIT)

Bool(b) == IF b THEN True ELSE False

\* A plausible slip: `i as u64` without `as u32` sign-extends into the tag bits.
IntegerSignExtended(i) ==
    Or(Or(NAN, INT_TAG), I32Bits(i) \cup (IF i < 0 THEN 32..63 ELSE {}))
Integer(i) == Or(Or(NAN, INT_TAG), I32Bits(i))

to_integer(v) == BitsI32(v)

\* A double is modelled by its IEEE-754 fields: sign s (0 or 1), biased exponent
\* e (0..2047) and the 52 fraction bits m.  f64::to_bits packs them into a word
\* and f64::from_bits unpacks them.
F64ToBits(f) == Or(Or(Shl(U(f.s), 63), Shl(U(f.e), 52)), f.m)

F64FromBits(w) == [s |-> IF 63 \in w THEN 1 ELSE 0,
                   e |-> SumPow(And(Shr(w, 52), LowMask(11))),
                   m |-> And(w, LowMask(52))]

Float(f) == F64ToBits(f)

to_float(v) == F64FromBits(v)

\* Symbol derefs to the interner's id, a usize (64 bits); there is no range check.
Symbol(s) == Or(Or(NAN, SYMBOL_TAG), s)

to_symbol(v) == AsU32(v)

\* to_pointer without the test of bit 47: the word is masked to 48 bits whatever
\* the address, so an address of the upper half loses its sign extension.
to_pointer_masked(v) == And(v, LowMask(48))

\* Value::to_pointer
to_pointer(v) ==
    IF U(1) = And(Shr(v, 47), U(1))
    THEN Or(v, Shl(U(65535), 48))
    ELSE And(v, LowMask(48))

---------------------------------------------------------------------------
(* value.rs: heap cells, the head word, constructors, accessors, mutators *)

\* A cell of any of the four heap_repr structs; the fields a struct does not have
\* stay at their defaults.  env is the sequence of Values the lambda's
\* Environment captures (the type is opaque to value.rs); code is not modelled
\* beyond being present.
NoCell == [kind |-> "none", gc |-> {}, car |-> {}, cdr |-> {}, vec |-> <<>>,
           str |-> "", env |-> <<>>]

\* heap_repr::Pair::new
PairNew(gc, car, cdr) ==
    [NoCell EXCEPT !.kind = "Pair", !.gc = gc, !.car = car, !.cdr = cdr]

\* heap_repr::Lambda::new: root & 0xff_ffff_ffff_ffff
LambdaNew(root, env) ==
    [NoCell EXCEPT !.kind = "Lambda", !.gc = And(root, LowMask(56)), !.env = env]

\* heap_repr::SVec::new
SVecNew(gc, v) == [NoCell EXCEPT !.kind = "Vec", !.gc = gc, !.vec = v]

\* heap_repr::SString::new
SStringNew(gc, s) == [NoCell EXCEPT !.kind = "String", !.gc = gc, !.str = s]

\* get_head(): the raw head word.
get_head(head) == head

\* set_head(ptr, kind): (kind << 56) | (ptr_sign << 55) | (ptr & 0x007F_FFFF_FFFF_FFFE)
set_head(ptr, kind) ==
    Or(Or(Shl(U(VTypeCode[kind]), 56), Shl(And(Shr(ptr, 63), U(1)), 55)),
       And(ptr, 1..54))

\* NAN | tag | (p & ((1 << 48) - 1))
PackPointer(tag, p) == Or(Or(NAN, tag), And(p, LowMask(48)))

\* to_pair and its siblings: the cell at to_pointer(v).
CellOf(h, v) == h[to_pointer(v)]

car(h, v) == CellOf(h, v).car

cdr(h, v) == CellOf(h, v).cdr

set_car(h, v, x) == [h EXCEPT ![to_pointer(v)].car = x]

\* set_cdr storing into the car field: the slip the two setters' likeness invites.
set_cdr_into_car(h, v, x) == [h EXCEPT ![to_pointer(v)].car = x]

set_cdr(h, v, x) == [h EXCEPT ![to_pointer(v)].cdr = x]

IsHeapValue(v) == is_lambda(v) \/ is_pair(v) \/ is_vec(v) \/ is_string(v)

---------------------------------------------------------------------------
(* value.rs: Value::mark *)

\* p.gc = p.gc | 1, counting the write in visits.
SetMark(st, a) ==
    [st EXCEPT !.heap = [st.heap EXCEPT ![a].gc = Or(@, U(1))],
               !.visits = [st.visits EXCEPT ![a] = @ + 1]]

\* The recursion of mark, threading the heap.  depth is the number of enclosing
\* calls that hold a cell.  Once it reaches the number of allocated cells, some cell
\* is held by two of the calls, so it reaches itself and the recursion has no end:
\* the native stack overflows.  to_type's unreachable!() is a panic.  A word
\* whose tag names a heap kind but whose address holds no cell of that kind makes
\* Box::from_raw undefined behaviour: whatever the access does, the model stops.
RECURSIVE mark(_, _, _)
RECURSIVE MarkEach(_, _, _, _)
MarkEach(st, vs, i, depth) ==
    IF i > Len(vs) THEN st
    ELSE MarkEach(mark(st, vs[i], depth), vs, i + 1, depth)

mark(st, v, depth) ==
    IF st.end # "done" THEN st
    ELSE LET ty == to_type(v)
             a == to_pointer(v)
         IN  IF ty = "unreachable" THEN [st EXCEPT !.end = "panic"]
             ELSE IF ty \notin {"Lambda", "Pair", "Vec", "String"} THEN st
             ELSE IF a \notin DOMAIN st.heap \/ st.heap[a].kind # ty
                  THEN [st EXCEPT !.end = "undefined"]
             ELSE IF depth >= Cardinality(DOMAIN st.heap)
                  THEN [st EXCEPT !.end = "stack_overflow"]
             ELSE IF ty = "Lambda" THEN SetMark(st, a)
             ELSE IF ty = "Pair"
                  THEN LET s1 == SetMark(st, a)
                           s2 == mark(s1, st.heap[a].car, depth + 1)
                       IN  mark(s2, st.heap[a].cdr, depth + 1)
             ELSE IF ty = "Vec"
                  THEN LET s1 == MarkEach(st, st.heap[a].vec, 1, depth + 1)
                       IN  IF s1.end # "done" THEN s1 ELSE SetMark(s1, a)
             ELSE SetMark(st, a)

MarkStart(h) == [heap |-> h, visits |-> [a \in DOMAIN h |-> 0], end |-> "done"]

---------------------------------------------------------------------------
(* value.rs: impl fmt::Display for Value *)

DigitChar == <<"0", "1", "2", "3", "4", "5", "6", "7", "8", "9">>

\* Decimal digits of a natural n, most significant first.
RECURSIVE NatText(_)
NatText(n) == IF n < 10 THEN DigitChar[n + 1]
              ELSE NatText(n \div 10) \o DigitChar[(n % 10) + 1]

\* Decimal digits of |n| for n <= 0, without negating n (MinI32 has no negation).
RECURSIVE NegText(_)
NegText(n) ==
    LET r == (10 - (n % 10)) % 10
        q == (n + r) \div 10
    IN  IF q = 0 THEN DigitChar[r + 1] ELSE NegText(q) \o DigitChar[r + 1]

\* Decimal digits of a u64, by doubling a little-endian digit sequence bit by bit.
RECURSIVE DoubleAdd(_, _)
DoubleAdd(ds, c) ==
    IF ds = <<>> THEN (IF c = 0 THEN <<>> ELSE <<c>>)
    ELSE LET t == 2 * Head(ds) + c
         IN  <<t % 10>> \o DoubleAdd(Tail(ds), t \div 10)

RECURSIVE U64Digits(_, _, _)
U64Digits(w, k, acc) ==
    IF k < 0 THEN acc
    ELSE U64Digits(w, k - 1, DoubleAdd(acc, IF k \in w THEN 1 ELSE 0))

RECURSIVE DigitsText(_)
DigitsText(ds) ==
    IF ds = <<>> THEN "" ELSE DigitsText(Tail(ds)) \o DigitChar[Head(ds) + 1]

U64Text(w) == IF w = {} THEN "0" ELSE DigitsText(U64Digits(w, 63, <<>>))

\* The fraction digits of num/den (0 <= num < den, den a power of two).
RECURSIVE FracText(_, _)
FracText(num, den) ==
    IF num = 0 THEN ""
    ELSE DigitChar[((10 * num) \div den) + 1] \o FracText((10 * num) % den, den)

\* The text Rust prints for a finite double whose fraction uses only its top three
\* bits and whose exponent is within three of the bias (such as 1, 0.5, 1.5, -2):
\* the exact decimal expansion, which is then also the shortest that round-trips.
F64Covered(f) == f.e \in 1020..1026 /\ f.m \subseteq 49..51

F64Text(f) ==
    LET t == SumPow(Shr(f.m, 49))
        num == (8 + t) * (IF f.e >= 1023 THEN 2^(f.e - 1023) ELSE 1)
        den == 8 * (IF f.e < 1023 THEN 2^(1023 - f.e) ELSE 1)
        frac == FracText(num % den, den)
    IN  NatText(num \div den) \o (IF frac = "" THEN "" ELSE "." \o frac)

\* string_interner::get_value: the text of the ids the interner knows.
InternerText == (U(0) :> "x") @@ (U(1) :> "foo")

\* The state of one display call: the text the sink has accepted, the number of
\* write_str calls it will still accept (-1: it never fails), how the call stands
\* ("ok", "err": fmt::Error, "panic", "diverge": it has no end, "double_free"), and
\* the cells whose Box was dropped on the way out.
DisplayStart(budget) == [out |-> "", left |-> budget, end |-> "ok", freed |-> {}]

write_str(d, s) ==
    IF d.end # "ok" THEN d
    ELSE IF d.left = 0 THEN [d EXCEPT !.end = "err"]
    ELSE [d EXCEPT !.out = @ \o s, !.left = IF @ < 0 THEN @ ELSE @ - 1]

\* A Box<T> that goes out of scope without Box::into_raw frees its cell.
DropBox(d, a) ==
    IF a \in d.freed THEN [d EXCEPT !.end = "double_free"]
    ELSE [d EXCEPT !.freed = @ \cup {a}]

\* An Err or a panic leaving a frame that holds the Box of cell a drops the Box.
Unwind(d, a) == IF d.end \in {"err", "panic"} THEN DropBox(d, a) ELSE d

\* Display for i32 (pad_integral): the sign, then the digits.
WriteI32(d, n) ==
    IF n < 0 THEN write_str(write_str(d, "-"), NegText(n))
    ELSE write_str(d, NatText(n))

\* Display for f64: the sign, then the digits.
WriteF64(d, f) ==
    IF f.s = 1 THEN write_str(write_str(d, "-"), F64Text(f))
    ELSE write_str(d, F64Text(f))

\* get_value(s).unwrap()
WriteSymbol(d, s) ==
    IF s \in DOMAIN InternerText THEN write_str(d, InternerText[s])
    ELSE [d EXCEPT !.end = "panic"]

\* write!(f, "debug: {:?}", self) with the derived Debug of Value(u64).
WriteDebug(d, v) ==
    write_str(write_str(write_str(write_str(write_str(d,
        "debug: "), "Value"), "("), U64Text(v)), ")")

\* fmt, threading the display state.  depth is the number of cells on the path
\* from the displayed value to v (pairs entered through a car, pairs passed along
\* a cdr chain, vectors entered).  With a sink that never fails, a path longer than
\* the number of cells repeats a cell: the output never ends.  A sink that fails
\* ends the call, since every step along a path writes before it goes on.
RECURSIVE fmt(_, _, _, _)
RECURSIVE FmtTail(_, _, _, _)
RECURSIVE FmtVec(_, _, _, _, _)

\* The pair arm without its while loop: the cdr is handed on as it is, so a list
\* prints in dotted form.
FmtTailNoLoop(d, h, c, depth) == [d |-> d, c |-> c]

\* The while loop of the pair arm: c is the cdr reached; returns the display
\* state and the terminal cdr.
FmtTail(d, h, c, depth) ==
    IF d.end # "ok" \/ ~is_pair(c) THEN [d |-> d, c |-> c]
    ELSE IF d.left < 0 /\ depth >= Cardinality(DOMAIN h)
         THEN [d |-> [d EXCEPT !.end = "diverge"], c |-> c]
    ELSE LET b == to_pointer(c)
             d1 == fmt(write_str(d, " "), h, h[b].car, depth + 1)
         IN  IF d1.end # "ok" THEN [d |-> Unwind(d1, b), c |-> c]
             ELSE FmtTail(d1, h, h[b].cdr, depth + 1)

\* The for loop of the vector arm, from element i.
FmtVec(d, h, vec, i, depth) ==
    IF d.end # "ok" \/ i > Len(vec) THEN d
    ELSE LET d1 == fmt(d, h, vec[i], depth)
             d2 == IF i # Len(vec) THEN write_str(d1, ", ") ELSE d1
         IN  FmtVec(d2, h, vec, i + 1, depth)

fmt(d, h, v, depth) ==
    IF d.end # "ok" THEN d
    ELSE IF is_float(v) THEN WriteF64(d, to_float(v))
    ELSE IF is_integer(v) THEN WriteI32(d, to_integer(v))
    ELSE IF is_symbol(v) THEN WriteSymbol(d, to_symbol(v))
    ELSE IF v = True THEN write_str(d, "#t")
    ELSE IF v = False THEN write_str(d, "#f")
    ELSE IF is_nil(v) THEN write_str(d, "()")
    ELSE IF is_void(v) THEN d
    ELSE IF is_lambda(v) THEN write_str(d, "#<procedure>")
    ELSE IF is_pair(v)
         THEN IF d.left < 0 /\ depth >= Cardinality(DOMAIN h)
              THEN [d EXCEPT !.end = "diverge"]
              ELSE
              LET a == to_pointer(v)
                  d1 == fmt(write_str(d, "("), h, h[a].car, depth + 1)
                  t == FmtTail(d1, h, h[a].cdr, depth + 1)
                  \* the terminal cdr; a panic below unwinds through this frame
                  r == IF is_nil(t.c) THEN write_str(t.d, ")")
                       ELSE write_str(fmt(write_str(t.d, " . "), h, t.c, depth + 1), ")")
              IN  IF d1.end # "ok" THEN Unwind(d1, a)
                  ELSE IF t.d.end # "ok" THEN Unwind(t.d, a)
                  ELSE IF r.end = "panic" THEN Unwind(r, a)
                  ELSE r
    ELSE IF is_string(v)
         THEN write_str(write_str(write_str(d, "\""), h[to_pointer(v)].str), "\"")
    ELSE IF is_vec(v)
         THEN IF d.left < 0 /\ depth >= Cardinality(DOMAIN h)
              THEN [d EXCEPT !.end = "diverge"]
              ELSE
              LET a == to_pointer(v)
                  d1 == write_str(d, "#(")
                  d2 == FmtVec(d1, h, h[a].vec, 1, depth + 1)
              IN  IF d2.end # "ok" THEN Unwind(d2, a)
                  ELSE write_str(d2, ")")
    ELSE WriteDebug(d, v)

---------------------------------------------------------------------------
(* The value layer as a state machine: a Value is made by `impl From<u64>`  *)
(* or by an immediate constructor, then classified and projected.           *)

PayloadBits == 2

MaxSmall == 2

\* Top 16 bits of a word: ordinary doubles of both signs, and every word whose
\* exponent is all ones, with each value of bit 51 and of the tag bits 50..48.
TopPatterns ==
    {0, 16368, 32736, 32768, 49136} \cup {32752 + t : t \in 0..15}
        \cup {65520 + t : t \in 0..15}

Payloads == {Shl(p, o) : p \in SUBSET (0..(PayloadBits - 1)), o \in {0, 30, 42}}

RawWords ==
    {Or(Or(Shl(U(t), 48), Shl(U(n), 44)), p) :
        t \in TopPatterns, n \in 0..15, p \in Payloads}

IntInputs ==
    UNION {{d, -d, MinI32 + d, MaxI32 - d, 32768 - d, d - 32768, 65536 - d,
            d - 65536, 1073741824 + d, d - 1073741824} : d \in 0..MaxSmall}

FloatInputs ==
    [s : {0, 1}, e : {0, 1, 1023, 2046, 2047},
     m : {{}, {0}, {44}, {48}, {51}, {48, 51}, 0..51}]

\* Interner ids are usize: 64-bit words.
SymbolInputs ==
    {Shl(p, o) : p \in SUBSET (0..(PayloadBits - 1)), o \in {0, 30, 31, 43, 44, 46, 47, 62}}

NoFloat == [s |-> 0, e |-> 0, m |-> {}]

NoObs == [type |-> "none", int |-> 0, sym |-> {}, flt |-> NoFloat, ptr |-> {}]

Made(op, i, w, f) == [op |-> op, i |-> i, w |-> w, f |-> f, err |-> "none"]

NoVisits == [a \in {} |-> 0]

\* The record of an operation: its name, its Value arguments v and x, the word it
\* returned, and the other things some operations take or return.
Last(op, v, x, ret) ==
    [op |-> op, v |-> v, x |-> x, ret |-> ret, out |-> "", end |-> "ok",
     seq |-> <<>>, n |-> 0, flt |-> NoFloat, visits |-> NoVisits]

HeapInit ==
    /\ HEAD = {}
    /\ heap = [a \in {} |-> NoCell]
    /\ held = {}
    /\ allocs = <<>>
    /\ last = Last("none", {}, {}, {})
    /\ status = "running"

WordInit ==
    /\ val \in RawWords
    /\ made = Made("From", 0, val, NoFloat)
    /\ obs = NoObs
    /\ HeapInit

MkFloat(f) ==
    /\ val' = Float(f)
    /\ made' = Made("Float", 0, {}, f)
    /\ obs' = NoObs
    /\ UNCHANGED heapVars

MkInteger(i) ==
    /\ val' = Integer(i)
    /\ made' = Made("Integer", i, {}, NoFloat)
    /\ obs' = NoObs
    /\ UNCHANGED heapVars

MkSymbol(s) ==
    /\ val' = Symbol(s)
    /\ made' = Made("Symbol", 0, s, NoFloat)
    /\ obs' = NoObs
    /\ UNCHANGED heapVars

MkBool(b) ==
    /\ val' = Bool(b)
    /\ made' = Made("Bool", IF b THEN 1 ELSE 0, {}, NoFloat)
    /\ obs' = NoObs
    /\ UNCHANGED heapVars

MkConst ==
    /\ \E c \in {"Void", "Nil"} :
          /\ val' = (IF c = "Void" THEN Void ELSE Nil)
          /\ made' = Made(c, 0, {}, NoFloat)
    /\ obs' = NoObs
    /\ UNCHANGED heapVars

\* to_type and the projections applied to val.
Observe ==
    /\ obs = NoObs
    /\ obs' = [type |-> to_type(val), int |-> to_integer(val),
               sym |-> to_symbol(val), flt |-> to_float(val),
               ptr |-> to_pointer(val)]
    /\ UNCHANGED <<val, made>>
    /\ UNCHANGED heapVars

WordNext ==
    \/ \E f \in FloatInputs : MkFloat(f)
    \/ \E i \in IntInputs : MkInteger(i)
    \/ \E s \in SymbolInputs : MkSymbol(s)
    \/ \E b \in BOOLEAN : MkBool(b)
    \/ MkConst
    \/ Observe

SpecWord == WordInit /\ [][WordNext]_vars

---------------------------------------------------------------------------
(* The heap as a state machine *)

\* Box::new returns a free, aligned address p; the constructors below take it as
\* the allocator's answer.  The code reads nothing of an address but its bits: low
\* addresses are 0x10, 0x20, ..., and HighAddr (0xFFFF_8000_0000_0010) is an address
\* of the high half, whose bit 47 and upper 16 bits are ones.
LowAddr(k) == Shl(U(k), 4)

HighAddr == Or(Or(Shl(U(65535), 48), Shl(U(1), 47)), Shl(U(1), 4))

\* The lowest free low address.
LowFresh ==
    {LowAddr(CHOOSE k \in 1..(Cardinality(DOMAIN heap) + 1) :
        /\ LowAddr(k) \notin DOMAIN heap
        /\ \A j \in 1..(k - 1) : LowAddr(j) \in DOMAIN heap)}

FreshAddrs == LowFresh \cup ({HighAddr} \ DOMAIN heap)

SeqsUpTo(S, n) == UNION {[1..k -> S] : k \in 0..n}

Cells == Cardinality(DOMAIN heap)

\* Value::Pair
Pair(a, b, p) ==
    /\ status = "running"
    /\ p \notin DOMAIN heap
    /\ LET next == get_head(HEAD)
           ret == PackPointer(PAIR_TAG, p)
       IN  /\ heap' = heap @@ (p :> PairNew(next, a, b))
           /\ HEAD' = set_head(p, "Pair")
           /\ held' = held \cup {ret}
           /\ allocs' = Append(allocs, [addr |-> p, kind |-> "Pair", head |-> next])
           /\ last' = Last("Pair", a, b, ret)
    /\ UNCHANGED status
    /\ UNCHANGED wordVars

\* Value::Lambda
Lambda(env, p) ==
    /\ status = "running"
    /\ p \notin DOMAIN heap
    /\ LET next == get_head(HEAD)
           ret == PackPointer(LAMBDA_TAG, p)
       IN  /\ heap' = heap @@ (p :> LambdaNew(next, env))
           /\ HEAD' = set_head(p, "Lambda")
           /\ held' = held \cup {ret}
           /\ allocs' = Append(allocs, [addr |-> p, kind |-> "Lambda", head |-> next])
           /\ last' = [Last("Lambda", {}, {}, ret) EXCEPT !.seq = env]
    /\ UNCHANGED status
    /\ UNCHANGED wordVars

\* Value::Vec
Vec(v, p) ==
    /\ status = "running"
    /\ p \notin DOMAIN heap
    /\ LET next == get_head(HEAD)
           ret == PackPointer(VEC_TAG, p)
       IN  /\ heap' = heap @@ (p :> SVecNew(next, v))
           /\ HEAD' = set_head(p, "Vec")
           /\ held' = held \cup {ret}
           /\ allocs' = Append(allocs, [addr |-> p, kind |-> "Vec", head |-> next])
           /\ last' = [Last("Vec", {}, {}, ret) EXCEPT !.seq = v]
    /\ UNCHANGED status
    /\ UNCHANGED wordVars

\* Value::String
String(s, p) ==
    /\ status = "running"
    /\ p \notin DOMAIN heap
    /\ LET next == get_head(HEAD)
           ret == PackPointer(STRING_TAG, p)
       IN  /\ heap' = heap @@ (p :> SStringNew(next, s))
           /\ HEAD' = set_head(p, "String")
           /\ held' = held \cup {ret}
           /\ allocs' = Append(allocs, [addr |-> p, kind |-> "String", head |-> next])
           /\ last' = [Last("String", {}, {}, ret) EXCEPT !.out = s]
    /\ UNCHANGED status
    /\ UNCHANGED wordVars

\* Value::car, on a pair the program holds
Car(v) ==
    /\ status = "running"
    /\ is_pair(v)
    /\ last' = Last("car", v, {}, car(heap, v))
    /\ UNCHANGED <<HEAD, heap, held, allocs, status>>
    /\ UNCHANGED wordVars

\* Value::cdr
Cdr(v) ==
    /\ status = "running"
    /\ is_pair(v)
    /\ last' = Last("cdr", v, {}, cdr(heap, v))
    /\ UNCHANGED <<HEAD, heap, held, allocs, status>>
    /\ UNCHANGED wordVars

\* Value::set_car (it returns nothing; last names the call and its target)
SetCar(v, x) ==
    /\ status = "running"
    /\ is_pair(v)
    /\ heap' = set_car(heap, v, x)
    /\ last' = Last("set_car", v, x, {})
    /\ UNCHANGED <<HEAD, held, allocs, status>>
    /\ UNCHANGED wordVars

\* Value::set_cdr
SetCdr(v, x) ==
    /\ status = "running"
    /\ is_pair(v)
    /\ heap' = set_cdr(heap, v, x)
    /\ last' = Last("set_cdr", v, x, {})
    /\ UNCHANGED <<HEAD, held, allocs, status>>
    /\ UNCHANGED wordVars

\* to_integer, to_float, to_symbol, to_pointer on a Value the program holds
Project(op, v) ==
    /\ status = "running"
    /\ last' = [Last(op, v, {}, IF op = "to_symbol" THEN to_symbol(v)
                                ELSE IF op = "to_pointer" THEN to_pointer(v)
                                ELSE {})
                  EXCEPT !.n = IF op = "to_integer" THEN to_integer(v) ELSE 0,
                         !.flt = IF op = "to_float" THEN to_float(v) ELSE NoFloat]
    /\ UNCHANGED <<HEAD, heap, held, allocs, status>>
    /\ UNCHANGED wordVars

\* Value::mark, called by the collector on a root
Mark(v) ==
    /\ status = "running"
    /\ LET r == mark(MarkStart(heap), v, 0)
       IN  /\ heap' = r.heap
           /\ status' = IF r.end = "done" THEN "running" ELSE r.end
           /\ last' = [Last("mark", v, {}, {}) EXCEPT !.end = r.end,
                                                       !.visits = r.visits]
    /\ UNCHANGED <<HEAD, held, allocs>>
    /\ UNCHANGED wordVars

\* Value::mark applied to Float(f).  last.flt holds f, and last.n = 1 says that
\* the word marked came from Float.
MarkFloat(f) ==
    /\ status = "running"
    /\ LET v == Float(f)
           r == mark(MarkStart(heap), v, 0)
       IN  /\ heap' = r.heap
           /\ status' = IF r.end = "done" THEN "running" ELSE r.end
           /\ last' = [Last("mark", v, {}, {}) EXCEPT !.end = r.end,
                                                       !.visits = r.visits,
                                                       !.flt = f,
                                                       !.n = 1]
    /\ UNCHANGED <<HEAD, held, allocs>>
    /\ UNCHANGED wordVars

\* Display::fmt on a sink that accepts `budget` writes (-1: every write).  Cells
\* whose Box was dropped are freed while HEAD, gc links and Values still refer to
\* them; the model stops there.
Display(v, budget) ==
    /\ status = "running"
    /\ LET r == fmt(DisplayStart(budget), heap, v, 0)
       IN  /\ heap' = [a \in DOMAIN heap \ r.freed |-> heap[a]]
           /\ status' = IF r.end = "ok" THEN "running"
                        ELSE IF r.end = "err"
                             THEN (IF r.freed = {} THEN "running" ELSE "dangling")
                        ELSE r.end
           /\ last' = [Last("display", v, {}, {}) EXCEPT !.out = r.out,
                                                          !.end = r.end,
                                                          !.n = budget]
    /\ UNCHANGED <<HEAD, held, allocs>>
    /\ UNCHANGED wordVars

Init ==
    /\ val = Void
    /\ made = Made("Void", 0, {}, NoFloat)
    /\ obs = NoObs
    /\ HeapInit

---------------------------------------------------------------------------
(* Pairs as registers: any sequence of Pair, set_car and set_cdr calls *)

MaxPairs == 2

PairOperands == {Nil} \cup held

\* Where Box::new puts the next pair: the second cell in the upper half of the
\* canonical address space (bit 47 set), the others at low addresses.
PairAddrs == IF Cells = 1 THEN {HighAddr} ELSE LowFresh

Next ==
    \/ /\ Cells < MaxPairs
       /\ \E a, b \in PairOperands, p \in PairAddrs : Pair(a, b, p)
    \/ \E v \in held, x \in PairOperands : SetCar(v, x)
    \/ \E v \in held, x \in PairOperands : SetCdr(v, x)

Spec == Init /\ [][Next]_vars

---------------------------------------------------------------------------
(* Allocation: the four heap constructors in any mix and order, no collection *)

MaxAllocs == 3

MaxSeqLen == 1

Strings == {"hi"}

AllocNext ==
    /\ Cells < MaxAllocs
    /\ \/ \E a, b \in PairOperands, p \in FreshAddrs : Pair(a, b, p)
       \/ \E env \in SeqsUpTo(PairOperands, MaxSeqLen), p \in FreshAddrs : Lambda(env, p)
       \/ \E v \in SeqsUpTo(PairOperands, MaxSeqLen), p \in FreshAddrs : Vec(v, p)
       \/ \E s \in Strings, p \in FreshAddrs : String(s, p)

SpecAlloc == Init /\ [][AllocNext]_vars

---------------------------------------------------------------------------
(* Marking: the constructors, the pair mutators, and mark on any root *)

MaxMarkCells == 2

MarkNext ==
    \/ /\ Cells < MaxMarkCells
       /\ \/ \E a, b \in PairOperands, p \in FreshAddrs : Pair(a, b, p)
          \/ \E env \in SeqsUpTo(PairOperands, MaxSeqLen), p \in FreshAddrs : Lambda(env, p)
          \/ \E v \in SeqsUpTo(PairOperands, MaxSeqLen), p \in FreshAddrs : Vec(v, p)
          \/ \E s \in Strings, p \in FreshAddrs : String(s, p)
    \/ \E v \in held, x \in PairOperands : SetCar(v, x)
    \/ \E v \in held, x \in PairOperands : SetCdr(v, x)
    \/ \E v \in PairOperands : Mark(v)

SpecMark == Init /\ [][MarkNext]_vars

---------------------------------------------------------------------------
(* Accessors: pairs, their accessors and mutators, the projections, and display *)
(* on sinks that may fail                                                       *)

MaxAccessCells == 2

MaxWrites == 3

AccessOperands == {Integer(1)} \cup held

AccessNext ==
    \/ /\ Cells < MaxAccessCells
       /\ \E a, b \in AccessOperands, p \in FreshAddrs : Pair(a, b, p)
    \/ \E v \in held : Car(v)
    \/ \E v \in held : Cdr(v)
    \/ \E v \in held, x \in AccessOperands : SetCar(v, x)
    \/ \E v \in held, x \in AccessOperands : SetCdr(v, x)
    \/ \E op \in {"to_integer", "to_float", "to_symbol", "to_pointer"},
          v \in AccessOperands : Project(op, v)
    \/ \E v \in AccessOperands, budget \in -1..MaxWrites : Display(v, budget)

SpecAccess == Init /\ [][AccessNext]_vars

---------------------------------------------------------------------------
(* Lists: pairs built by Pair alone (so acyclic, tails may be shared), displayed *)
(* on a sink that never fails                                                   *)

MaxListCells == 3

ListCars == {Integer(1), Integer(2), Integer(3)} \cup held

ListCdrs == {Nil, Integer(2)} \cup held

\* Lists are built, and what has been built is displayed to a sink that never
\* fails; a display straight after a display would print from the same heap.
ListNext ==
    \/ /\ Cells < MaxListCells
       /\ \E a \in ListCars, b \in ListCdrs, p \in LowFresh : Pair(a, b, p)
    \/ /\ last.op # "display"
       /\ \E v \in held : Display(v, -1)

SpecList == Init /\ [][ListNext]_vars

---------------------------------------------------------------------------
(* Pointer packing: a heap tag and an address packed into a word, and read back *)

MaxAddrBits == 2

\* Bit positions an address is drawn from: alignment bits, the 32-bit boundary,
\* the bits under the immediate mask (44..47), and bit 47, the sign.
AddrPositions == {0, 3, 4, 31, 32, 43, 44, 45, 46, 47}

\* The canonical form of the low 48 bits s: bits 63..48 all equal to bit 47.
Canonical(s) == s \cup (IF 47 \in s THEN 48..63 ELSE {})

\* Canonical addresses with few bits set, and with few bits clear.
CanonAddrs ==
    LET few == {s \in SUBSET AddrPositions : Cardinality(s) <= MaxAddrBits}
    IN  {Canonical(s) : s \in few} \cup {Canonical((0..47) \ s) : s \in few}

HeapKinds == {"Lambda", "Pair", "Vec", "String"}

HeapTag == [Lambda |-> LAMBDA_TAG, Pair |-> PAIR_TAG, Vec |-> VEC_TAG,
            String |-> STRING_TAG]

\* The last line of each heap constructor: Value(NAN | TAG | (p & ((1 << 48) - 1)))
MkPointer(k, p) ==
    /\ val' = PackPointer(HeapTag[k], p)
    /\ made' = Made("Pointer", VTypeCode[k], p, NoFloat)
    /\ obs' = NoObs
    /\ UNCHANGED heapVars

PtrNext ==
    \/ \E k \in HeapKinds, p \in CanonAddrs : MkPointer(k, p)
    \/ Observe

SpecPtr == Init /\ [][PtrNext]_vars

---------------------------------------------------------------------------
(* set_gc: a head word decoded, and the gc field of the cell it names written *)

\* Value::set_gc, first line: the kind stamped in the top byte.
set_gc_ty(p) == VTypeFrom(Shr(p, 56))

\* Value::set_gc, the address: all of the word but bit 0 when bit 55 is set,
\* bits 47..1 otherwise.
set_gc_ptr(p) ==
    IF And(Shr(p, 55), U(1)) = U(1) THEN And(p, 1..63) ELSE And(p, 1..47)

\* Where a load or store through address q lands on hardware that ignores the
\* top byte of an address: bits 63..56 are replaced by copies of bit 55.
TopByteIgnored(q) == Or(And(q, 0..55), IF 55 \in q THEN 56..63 ELSE {})

\* What Box::from_raw(ptr) followed by p.gc = gc can do when ptr is not the
\* address of a cell (undefined behaviour): the access faults, or, where the top
\* byte of an address is ignored, it lands in the cell the other bits name.
WildWriteOutcomes(h, ptr) ==
    {"fault"} \cup (IF TopByteIgnored(ptr) \in DOMAIN h THEN {"top_byte_ignored"} ELSE {})

\* Value::set_gc(p, gc), called with the head word of cell a as set_head stores it.
SetGc(a, g) ==
    /\ status = "running"
    /\ a \in DOMAIN heap
    /\ LET p == set_head(a, heap[a].kind)
           ty == set_gc_ty(p)
           ptr == set_gc_ptr(p)
       IN  IF ty \notin HeapKinds
           THEN /\ status' = "panic"
                /\ heap' = heap
                /\ last' = [Last("set_gc", p, g, a) EXCEPT !.end = "panic"]
           ELSE IF ptr \in DOMAIN heap
           THEN /\ heap' = [heap EXCEPT ![ptr].gc = g]
                /\ status' = IF heap[ptr].kind = ty THEN "running" ELSE "type_confusion"
                /\ last' = [Last("set_gc", p, g, a) EXCEPT
                                !.end = IF heap[ptr].kind = ty THEN "ok" ELSE "type_confusion"]
           ELSE \E o \in WildWriteOutcomes(heap, ptr) :
                    /\ heap' = IF o = "fault" THEN heap
                               ELSE [heap EXCEPT ![TopByteIgnored(ptr)].gc = g]
                    /\ status' = IF o = "fault" THEN "fault" ELSE "running"
                    /\ last' = [Last("set_gc", p, g, a) EXCEPT !.end = o]
    /\ UNCHANGED <<HEAD, held, allocs>>
    /\ UNCHANGED wordVars

MaxGcCells == 2

\* The words written to a gc field: nothing, or the head word of a cell, with the
\* mark bit clear or set.
GcWords ==
    LET links == {{}} \cup {set_head(b, heap[b].kind) : b \in DOMAIN heap}
    IN  links \cup {Or(w, U(1)) : w \in links}

GcNext ==
    \/ /\ Cells < MaxGcCells
       /\ \/ \E p \in FreshAddrs : Pair(Nil, Nil, p)
          \/ \E p \in FreshAddrs : Lambda(<<>>, p)
          \/ \E p \in FreshAddrs : Vec(<<Nil>>, p)
          \/ \E st \in Strings, p \in FreshAddrs : String(st, p)
    \/ \E a \in DOMAIN heap, g \in GcWords : SetGc(a, g)

SpecGc == Init /\ [][GcNext]_vars

---------------------------------------------------------------------------
(* The frame of mark: heaps built and mutated, mark called on heap Values, on
   immediates and on the words Float returns *)

\* Doubles handed to Float and then marked: 1.0, +Inf, and NaNs whose fraction
\* bits spell a heap tag (bit 48: lambda, bit 49: pair) and the address 0x10.
MarkFloats ==
    {[s |-> 0, e |-> 1023, m |-> {}], [s |-> 0, e |-> 2047, m |-> {}],
     [s |-> 0, e |-> 2047, m |-> {4, 49}], [s |-> 0, e |-> 2047, m |-> {4, 48}]}

MarkImmediates == {Void, Nil, True, False, Integer(1), Integer(-1), Symbol(U(1))}

FrameNext ==
    \/ MarkNext
    \/ \E v \in MarkImmediates : Mark(v)
    \/ \E f \in MarkFloats : MarkFloat(f)

SpecFrame == Init /\ [][FrameNext]_vars

---------------------------------------------------------------------------
(* Claims about the value layer *)

\* The ten kind predicates of v that return true (one per VType).
KindPredicates(v) ==
    {n \in {"is_void", "is_nil", "is_bool", "is_integer", "is_float", "is_symbol",
            "is_lambda", "is_pair", "is_vec", "is_string"} :
        \/ n = "is_void" /\ is_void(v)
        \/ n = "is_nil" /\ is_nil(v)
        \/ n = "is_bool" /\ is_bool(v)
        \/ n = "is_integer" /\ is_integer(v)
        \/ n = "is_float" /\ is_float(v)
        \/ n = "is_symbol" /\ is_symbol(v)
        \/ n = "is_lambda" /\ is_lambda(v)
        \/ n = "is_pair" /\ is_pair(v)
        \/ n = "is_vec" /\ is_vec(v)
        \/ n = "is_string" /\ is_string(v)}

\* C1: every 64-bit word classifies into exactly one kind, and to_type never
\* reaches its unreachable!() branch.  Stated over the ten kind predicates:
\* is_true and is_false refine is_bool (is_true is !is_false), so "exactly one of
\* the twelve" together with a total to_type implies this statement.
C1_ExactlyOneKind ==
    /\ Cardinality(KindPredicates(val)) = 1
    /\ to_type(val) # "unreachable"
    /\ obs # NoObs => obs.type # "unreachable"

\* C2: the Value returned by Float(x) satisfies is_float and no other kind
\* predicate, for every double x, infinities and NaNs included.
C2_FloatIsFloat ==
    made.op = "Float" =>
        /\ is_float(val)
        /\ KindPredicates(val) = {"is_float"}
        /\ obs # NoObs => obs.type = "Float"

Fits48(s) == s \subseteq 0..47

\* C8: Symbol(id) reports a LayoutViolation when id does not fit in 48 bits; when
\* it fits, Symbol(id) is a symbol and nothing else and to_symbol gives id back.
C8_SymbolChecked ==
    made.op = "Symbol" =>
        IF Fits48(made.w)
        THEN /\ KindPredicates(val) = {"is_symbol"}
             /\ to_symbol(val) = made.w
             /\ obs # NoObs => obs.type = "Symbol" /\ obs.sym = made.w
        ELSE made.err = "LayoutViolation"

\* C9: for every i32 i, Integer(i) satisfies is_integer and no other kind
\* predicate, and to_integer(Integer(i)) = i.
C9_IntegerRoundTrip ==
    made.op = "Integer" =>
        /\ is_integer(val)
        /\ KindPredicates(val) = {"is_integer"}
        /\ to_integer(val) = made.i
        /\ obs # NoObs => obs.type = "Integer" /\ obs.int = made.i

\* A negative integer (the minimum included) has been built and projected.
C9_Witness ==
    /\ made.op = "Integer"
    /\ made.i = MinI32
    /\ obs # NoObs
    /\ obs.int < 0

---------------------------------------------------------------------------
(* Claims about the heap *)

Range(f) == {f[i] : i \in DOMAIN f}

\* The Values a cell refers to: car and cdr of a pair, the elements of a vector,
\* the values a lambda's env captures.
ChildValues(c) ==
    IF c.kind = "Pair" THEN {c.car, c.cdr}
    ELSE IF c.kind = "Vec" THEN Range(c.vec)
    ELSE IF c.kind = "Lambda" THEN Range(c.env)
    ELSE {}

HeapAddrs(vs) == {to_pointer(v) : v \in {x \in vs : IsHeapValue(x)}}

RECURSIVE Closure(_, _, _)
Closure(h, frontier, seen) ==
    IF frontier \subseteq seen THEN seen
    ELSE LET new == frontier \ seen
         IN  Closure(h, UNION {HeapAddrs(ChildValues(h[a])) : a \in new}, seen \cup new)

\* The cells transitively reachable from the Values vs.
Reach(h, vs) == Closure(h, HeapAddrs(vs), {})

Marked(h, a) == U(1) \subseteq h[a].gc

\* C3: after mark(root), every heap cell transitively reachable from root has
\* mark bit 1: through car and cdr, vector elements, and the values a lambda's env
\* captures.
C3_MarkComplete ==
    (last.op = "mark" /\ last.end = "done") =>
        \A a \in Reach(heap, {last.v}) : Marked(heap, a)

\* The cells of the cycles through the cell of v.
CycleCells(h, v) ==
    {a \in Reach(h, {v}) :
        /\ to_pointer(v) \in Reach(h, ChildValues(h[a]))
        /\ a \in Reach(h, ChildValues(h[to_pointer(v)]))}

\* C4: if pairs form a cycle, mark(p) terminates and marks every cell of the
\* cycle exactly once.
C4_CycleTerminates ==
    (last.op = "mark" /\ is_pair(last.v) /\ CycleCells(heap, last.v) # {}) =>
        /\ last.end = "done"
        /\ \A a \in CycleCells(heap, last.v) :
              Marked(heap, a) /\ last.visits[a] = 1

\* The head-word layout of set_head: kind stamp in bits 63..56, sign in bit 55,
\* address bits below.
LinkKind(w) == VTypeFrom(Shr(w, 56))

LinkAddr(w) == Or(And(w, 1..54), IF 55 \in w THEN 55..63 ELSE {})

\* The cells met following the gc links from link word w, each with the kind
\* stamped on the link that leads to it; at most n of them.
RECURSIVE Walk(_, _, _)
Walk(h, w, n) ==
    IF n = 0 \/ w \ {0} = {} THEN <<>>
    ELSE IF LinkAddr(w) \notin DOMAIN h THEN <<[addr |-> LinkAddr(w), kind |-> "dangling"]>>
    ELSE <<[addr |-> LinkAddr(w), kind |-> LinkKind(w)]>>
             \o Walk(h, h[LinkAddr(w)].gc, n - 1)

\* C5: after n constructor calls and no collection the heap list has exactly n
\* cells: each cell's gc is the complete HEAD word read when it was made, with
\* mark bit 0; HEAD designates the newest cell with its kind; the gc links from
\* HEAD visit the n cells in reverse allocation order, each with its kind.
C5_HeapLinkage ==
    LET n == Len(allocs)
    IN  /\ Cells = n
        /\ \A i \in 1..n :
              /\ heap[allocs[i].addr].gc = allocs[i].head
              /\ ~Marked(heap, allocs[i].addr)
        /\ n > 0 => /\ LinkAddr(HEAD) = allocs[n].addr
                    /\ LinkKind(HEAD) = allocs[n].kind
        /\ Walk(heap, HEAD, n + 1) =
              [i \in 1..n |-> [addr |-> allocs[n + 1 - i].addr,
                               kind |-> allocs[n + 1 - i].kind]]

\* The fields of every pair the program holds, except those in skip, are the same
\* in h1 and h2.
OtherPairsSame(h1, h2, skip) ==
    \A w \in held \ skip :
        LET c1 == CellOf(h1, w)
            c2 == CellOf(h2, w)
        IN  c2.car = c1.car /\ c2.cdr = c1.cdr

\* C6: a pair's fields are two independent registers: Pair(a, b) gives a new pair
\* with car a and cdr b; set_car(p, x) makes car(p) x and leaves cdr(p);
\* set_cdr(p, y) makes cdr(p) y and leaves car(p); each leaves the fields of
\* every other pair.  last' holds the call just made: its operation, its
\* arguments v and x, and for Pair the Value returned.
C6_PairRegisters ==
    [][ /\ last'.op = "Pair" =>
              /\ car(heap', last'.ret) = last'.v
              /\ cdr(heap', last'.ret) = last'.x
              /\ last'.ret \notin held
              /\ OtherPairsSame(heap, heap', {})
        /\ last'.op = "set_car" =>
              /\ car(heap', last'.v) = last'.x
              /\ cdr(heap', last'.v) = cdr(heap, last'.v)
              /\ OtherPairsSame(heap, heap', {last'.v})
        /\ last'.op = "set_cdr" =>
              /\ cdr(heap', last'.v) = last'.x
              /\ car(heap', last'.v) = car(heap, last'.v)
              /\ OtherPairsSame(heap, heap', {last'.v})
      ]_vars

\* set_car has acted on one of two pairs, leaving it with different car and cdr.
C6_Witness ==
    /\ last.op = "set_car"
    /\ Cardinality(held) = 2
    /\ car(heap, last.v) # cdr(heap, last.v)
    /\ \E w \in held \ {last.v} : is_pair(car(heap, w))

AccessorOps == {"car", "cdr", "set_car", "set_cdr", "to_integer", "to_float",
                "to_symbol", "to_pointer", "display"}

\* C7: car, cdr, set_car, set_cdr, to_integer, to_float, to_symbol, to_pointer
\* and display never change HEAD, a gc link or a mark bit, and the set of allocated
\* cells is the same before and after each call.
C7_AccessorsKeepHeapList ==
    [][ last'.op \in AccessorOps =>
            /\ HEAD' = HEAD
            /\ DOMAIN heap' = DOMAIN heap
            /\ \A a \in DOMAIN heap : heap'[a].gc = heap[a].gc
      ]_vars

\* The cars along the cdr chain of pair v, and the terminal cdr.
RECURSIVE ChainCars(_, _)
ChainCars(h, v) ==
    IF is_pair(v) THEN <<car(h, v)>> \o ChainCars(h, cdr(h, v)) ELSE <<>>

RECURSIVE ChainEnd(_, _)
ChainEnd(h, v) == IF is_pair(v) THEN ChainEnd(h, cdr(h, v)) ELSE v

RECURSIVE Join(_, _)
Join(ts, sep) ==
    IF ts = <<>> THEN ""
    ELSE IF Len(ts) = 1 THEN ts[1]
    ELSE ts[1] \o sep \o Join(Tail(ts), sep)

\* The text the display rule of pairs prescribes for v, on an acyclic structure.
RECURSIVE Expected(_, _)
Expected(h, v) ==
    IF ~is_pair(v) THEN fmt(DisplayStart(-1), h, v, 0).out
    ELSE LET cars == ChainCars(h, v)
             texts == [i \in 1..Len(cars) |-> Expected(h, cars[i])]
             end == ChainEnd(h, v)
         IN  "(" \o Join(texts, " ") \o
                 (IF is_nil(end) THEN ")" ELSE " . " \o Expected(h, end) \o ")")

IsList123(h, v) ==
    /\ ChainCars(h, v) = <<Integer(1), Integer(2), Integer(3)>>
    /\ ChainEnd(h, v) = Nil

\* C10: display of a pair of an acyclic structure terminates and prints '(' , the
\* displays of the cars along the cdr chain separated by single spaces, then ')'
\* when the terminal cdr is Nil and ' . ' , the terminal cdr and ')' otherwise;
\* Pair(1, 2) prints "(1 . 2)" and the list 1, 2, 3 prints "(1 2 3)".
C10_DisplayPair ==
    (last.op = "display" /\ is_pair(last.v)) =>
        /\ last.end = "ok"
        /\ last.out = Expected(heap, last.v)
        /\ (car(heap, last.v) = Integer(1) /\ cdr(heap, last.v) = Integer(2))
              => last.out = "(1 . 2)"
        /\ IsList123(heap, last.v) => last.out = "(1 2 3)"

\* The list 1, 2, 3 has been displayed.
C10_Witness ==
    /\ last.op = "display"
    /\ IsList123(heap, last.v)
    /\ last.out = "(1 2 3)"

---------------------------------------------------------------------------
(* Claims about pointer packing and the head word *)

PointerPredicate == [Lambda |-> "is_lambda", Pair |-> "is_pair", Vec |-> "is_vec",
                     String |-> "is_string"]

\* C11: for every canonical address p and heap tag t, the word
\* NAN | t | (p & (2^48 - 1)) satisfies the pointer predicate of t and no other
\* kind predicate, and to_pointer gives p back: the upper 16 bits all ones when
\* bit 47 is 1, all zero otherwise, the low 48 bits unchanged.
C11_PointerRoundTrip ==
    made.op = "Pointer" =>
        LET k == VTypeFrom(U(made.i))
            p == made.w
            q == to_pointer(val)
        IN  /\ KindPredicates(val) = {PointerPredicate[k]}
            /\ to_type(val) = k
            /\ q = p
            /\ And(q, 48..63) = (IF 47 \in p THEN 48..63 ELSE {})
            /\ And(q, LowMask(48)) = And(p, LowMask(48))
            /\ obs # NoObs => obs.ptr = p /\ obs.type = k

\* An address of the upper half (bit 47 set) has been packed and read back.
C11_Witness ==
    /\ made.op = "Pointer"
    /\ 47 \in made.w
    /\ obs # NoObs
    /\ obs.ptr = made.w
    /\ 63 \in obs.ptr

\* C12: set_gc(h, g), with h the head word (k << 56) | (sign << 55) |
\* (ptr & 0x007F_FFFF_FFFF_FFFE) of a cell of kind k at the canonical even
\* address ptr, decodes kind k and the address ptr, writes g to the gc field of
\* that cell, and leaves every other cell and every other field unchanged.
\* last' holds the call: the head word v, the gc word x and the cell's address ret.
C12_SetGcDecodes ==
    [][ last'.op = "set_gc" =>
            LET h == last'.v
                g == last'.x
                a == last'.ret
            IN  /\ last'.end = "ok"
                /\ set_gc_ty(h) = heap[a].kind
                /\ set_gc_ptr(h) = a
                /\ DOMAIN heap' = DOMAIN heap
                /\ \A b \in DOMAIN heap :
                      heap'[b] = [heap[b] EXCEPT !.gc = IF b = a THEN g ELSE @]
                /\ HEAD' = HEAD
      ]_vars

---------------------------------------------------------------------------
(* Claims about the frame of mark *)

\* The cells reachable from the Value the last mark was called on: none for an
\* immediate and for a word that came from Float.
MarkReach(h, l) ==
    IF l.n = 1 \/ ~IsHeapValue(l.v) THEN {} ELSE Reach(h, {l.v})

====
